---- MODULE Spec2Model ----
(***************************************************************************)
(* Model of the EMR-on-EKS Airflow plugin: EMRContainerHook (submit_job,   *)
(* check_query_status, poll_query_status, stop_query),                    *)
(* EMRContainerOperator.execute and on_kill, EMRContainerSensor.poke.      *)
(* The remote service (boto3 client `conn`) is an external collaborator:   *)
(* every call to it answers with any of the outcomes the client code       *)
(* distinguishes.  Spec runs one component to its end, SpecKill adds the   *)
(* kill signal, SpecLive is the same program with fairness.                *)
(***************************************************************************)
EXTENDS Integers, Sequences, FiniteSets

(* ------------------------------ bounds --------------------------------- *)

\* largest max_tries / max_retries value a component is configured with
MaxTriesBound == 3

\* describe_job_run calls issued in the whole run (caps the unbounded loop)
MaxDescribes == 4

\* invocations of the sensor's poke by the external scheduler
MaxPokes == 2

(* ----------------------------- constants ------------------------------- *)

None == "None"

\* a key absent from a response payload
Missing == "<missing>"

INTERMEDIATE_STATES == {"PENDING", "SUBMITTED", "RUNNING"}

FAILURE_STATES == {"FAILED", "CANCELLED", "CANCEL_PENDING"}

SUCCESS_STATES == {"COMPLETED"}

\* the JobRunState values of the remote API
JobStates == INTERMEDIATE_STATES \cup FAILURE_STATES \cup SUCCESS_STATES

\* configuration of the components
VirtualClusterId == "vc-1"

SensorJobId == "j-2"

\* the client_request_token argument when the caller gives one
UserToken == "token-user"

\* str(uuid4()), the token generated when none is given
GeneratedToken == "token-uuid4"

\* a failureReason text of the remote service
FailureReason == "reason-1"

\* Optional[int]: set = FALSE is None
NoneInt == [set |-> FALSE, val |-> 0]

SomeInt(n) == [set |-> TRUE, val |-> n]

OptionalInts == {NoneInt} \cup {SomeInt(n) : n \in 0..MaxTriesBound}

\* the callers of poll_query_status
Callers == {"execute", "poke", "on_kill"}

(* ----------------------- the remote service ---------------------------- *)

\* conn.describe_job_run: a payload whose jobRun.state is a JobState or is
\* missing, or one of the two exceptions the hook distinguishes; a job run in
\* a failure state may carry a failureReason
DescribeOutcomes ==
    {[exc |-> None, state |-> s, failureReason |-> Missing] :
        s \in JobStates \cup {Missing}}
    \cup {[exc |-> None, state |-> s, failureReason |-> FailureReason] :
        s \in FAILURE_STATES}
    \cup {[exc |-> "ResourceNotFoundException", state |-> Missing,
           failureReason |-> Missing],
          [exc |-> "ClientError", state |-> Missing, failureReason |-> Missing]}

\* conn.cancel_job_run: an acknowledgment with an HTTP status, one without
\* ResponseMetadata.HTTPStatusCode, or an exception of the client
CancelOutcomes ==
    {[exc |-> None, hasStatus |-> TRUE, status |-> st] : st \in {200, 500}}
    \cup {[exc |-> None, hasStatus |-> FALSE, status |-> 0],
          [exc |-> "ClientError", hasStatus |-> FALSE, status |-> 0]}

\* conn.start_job_run: HTTP status and the id / virtualClusterId keys
StartOutcomes ==
    {[status |-> st, id |-> i, virtualClusterId |-> v] :
        st \in {200, 500}, i \in {"j-1", Missing}, v \in {VirtualClusterId, Missing}}

(* --------------------------- pure functions ---------------------------- *)

\* the truthiness test as `is not None`
TruthyInt_NotNone(n) == n.set

\* Python truthiness of an Optional[int]
TruthyInt(n) == n.set /\ n.val # 0

\* Python truthiness of an Optional[str]
TruthyStr(s) == s # None /\ s # ""

\* check_query_status with the not-found handler missing: the not-found is
\* caught by the ClientError handler (its base class) and swallowed
CheckQueryStatus_NotFoundSwallowed(resp) ==
    IF resp.exc \in {"ResourceNotFoundException", "ClientError"}
    THEN [raised |-> None, value |-> None]
    ELSE IF resp.state = Missing
    THEN [raised |-> "KeyError", value |-> None]
    ELSE [raised |-> None, value |-> resp.state]

\* check_query_status with the ClientError handler missing
CheckQueryStatus_ClientErrorRaised(resp) ==
    IF resp.exc = "ResourceNotFoundException"
    THEN [raised |-> "AirflowException", value |-> None]
    ELSE IF resp.exc = "ClientError"
    THEN [raised |-> "ClientError", value |-> None]
    ELSE IF resp.state = Missing
    THEN [raised |-> "KeyError", value |-> None]
    ELSE [raised |-> None, value |-> resp.state]

\* EMRContainerHook.check_query_status on one describe outcome
CheckQueryStatus(resp) ==
    IF resp.exc = "ResourceNotFoundException"
    THEN [raised |-> "AirflowException", value |-> None]
    ELSE IF resp.exc = "ClientError"
    THEN [raised |-> None, value |-> None]
    ELSE IF resp.state = Missing
    THEN [raised |-> "KeyError", value |-> None]
    ELSE [raised |-> None, value |-> resp.state]

\* the loop ending on the success states only
IsFinalState_SuccessOnly(query_state) ==
    query_state \in SUCCESS_STATES

\* poll_query_status: the branch that ends the loop with a final state
IsFinalState(query_state) ==
    query_state # None /\ query_state \notin INTERMEDIATE_STATES

\* the budget test with > for >=
MaxTriesReached_Strict(max_tries, try_number) ==
    TruthyInt(max_tries) /\ try_number > max_tries.val

\* the budget test as `max_tries is not None and ...`
MaxTriesReached_ZeroCounts(max_tries, try_number) ==
    max_tries.set /\ try_number >= max_tries.val

\* poll_query_status: `max_tries and try_number >= max_tries`
MaxTriesReached(max_tries, try_number) ==
    TruthyInt(max_tries) /\ try_number >= max_tries.val

\* submit_job: the request parameters; clientToken only for a truthy token
SubmitParams(token) ==
    [virtualClusterId |-> VirtualClusterId,
     clientToken |-> IF TruthyStr(token) THEN token ELSE Missing]

\* execute: the client_request_token argument of its submit_job call; the
\* call passes five positional arguments and leaves the parameter at its
\* default
ExecuteTokenArgument(stored_token) == None

\* the status test as `http_status_code != 200` on a present status only
CancelUnconfirmed_StatusOnly(response) ==
    response.hasStatus /\ response.status # 200

\* on_kill: `http_status_code is None or http_status_code != 200`
CancelUnconfirmed(response) ==
    ~response.hasStatus \/ response.status # 200

\* EMRContainerHook.get_job_failure_reason on one describe outcome (no
\* caller in the repository)
GetJobFailureReason(resp) ==
    IF resp.exc # None \/ resp.state = Missing \/ resp.failureReason = Missing
    THEN None
    ELSE resp.failureReason

\* submit_job without the HTTP status test
SubmitJob_NoStatusCheck(response) ==
    IF response.id = Missing \/ response.virtualClusterId = Missing
    THEN [raised |-> "KeyError", value |-> None]
    ELSE [raised |-> None, value |-> response.id]

\* EMRContainerHook.submit_job on one start_job_run outcome
SubmitJob(response) ==
    IF response.status # 200
    THEN [raised |-> "AirflowException", value |-> None]
    ELSE IF response.id = Missing \/ response.virtualClusterId = Missing
    THEN [raised |-> "KeyError", value |-> None]
    ELSE [raised |-> None, value |-> response.id]

\* execute: `error_message = "BEEP BOOP"`
ErrorMessage == "BEEP BOOP"

\* execute: the exception raised for a state of FAILURE_STATES
Failed == "Exception: Final state of EMR Containers job is {}, query_execution_id is {}. Error: BEEP BOOP"

\* execute: the exception raised for None or a state of INTERMEDIATE_STATES
TimedOut == "Exception: Final state of EMR Containers job is {}. Max tries of poll status exceeded, query_execution_id is {}."

\* execute: `return self.job_id`
Succeeded == "return self.job_id"

\* execute without the `not query_status` test
ExecuteOutcome_NoneSucceeds(query_status) ==
    IF query_status \in FAILURE_STATES THEN Failed
    ELSE IF query_status \in INTERMEDIATE_STATES THEN TimedOut
    ELSE Succeeded

\* EMRContainerOperator.execute after the poll: the branch taken
ExecuteOutcome(query_status) ==
    IF query_status \in FAILURE_STATES THEN Failed
    ELSE IF ~TruthyStr(query_status) \/ query_status \in INTERMEDIATE_STATES
    THEN TimedOut
    ELSE Succeeded

\* EMRContainerSensor.poke after the poll
PokeOutcome(state) ==
    IF state \in FAILURE_STATES THEN "raise"
    ELSE IF state \in INTERMEDIATE_STATES THEN "False"
    ELSE "True"

\* EMRContainerHook.virtual_cluster_id of the hook each component builds:
\* the sensor passes its virtual_cluster_id positionally, where the
\* keyword-only parameter of EMRContainerHook.__init__ does not receive it
HookVirtualClusterId(c) ==
    IF c = "poke" THEN None ELSE VirtualClusterId

(* -------------------------------- state -------------------------------- *)

VARIABLES
    task,            \* the component this task instance runs
    op_max_tries,    \* EMRContainerOperator.max_tries
    op_pc,           \* position of execute
    op_response,     \* value returned by hook.submit_job, not yet stored
    job_id,          \* EMRContainerOperator.job_id
    op_result,       \* outcome of execute
    start_calls,     \* conn.start_job_run calls issued
    sn_max_retries,  \* EMRContainerSensor.max_retries
    sn_pc,           \* position of poke
    sn_result,       \* outcome of the last poke
    pokes,           \* poke invocations so far
    poll,            \* the frame of poll_query_status, per caller
    describe_calls,  \* conn.describe_job_run calls issued, in order
    client_request_token, \* EMRContainerOperator.client_request_token
    error_message,   \* the error text of the exception execute raised
    kill_pc,         \* position of on_kill
    kill_result,     \* the exception that left on_kill, if any
    cancel_calls     \* conn.cancel_job_run calls issued

vars == <<task, op_max_tries, op_pc, op_response, job_id, op_result, start_calls,
          sn_max_retries, sn_pc, sn_result, pokes, poll, describe_calls,
          client_request_token, error_message, kill_pc, kill_result, cancel_calls>>

kill_vars == <<client_request_token, kill_pc, kill_result, cancel_calls>>

op_vars == <<task, op_max_tries, op_pc, op_response, job_id, op_result, start_calls>>

sn_vars == <<sn_max_retries, sn_pc, sn_result, pokes>>

\* EMRContainerOperator.__init__: `client_request_token or str(uuid4())`
InitToken(token) == IF TruthyStr(token) THEN token ELSE GeneratedToken

\* a frame of poll_query_status that has not been entered
IdleFrame ==
    [pc |-> "idle", job_id |-> None, max_tries |-> NoneInt, try_number |-> 0,
     query_state |-> None, final_query_state |-> None, raised |-> None,
     sleeps |-> 0, first_call |-> 0]

\* the attempt counter started at 0
EnterPoll_FromZero(id, max_tries) ==
    [pc |-> "check", job_id |-> id, max_tries |-> max_tries, try_number |-> 0,
     query_state |-> None, final_query_state |-> None, raised |-> None,
     sleeps |-> 0, first_call |-> Len(describe_calls)]

\* poll_query_status entered: try_number = 1, final_query_state = None
EnterPoll(id, max_tries) ==
    [pc |-> "check", job_id |-> id, max_tries |-> max_tries, try_number |-> 1,
     query_state |-> None, final_query_state |-> None, raised |-> None,
     sleeps |-> 0, first_call |-> Len(describe_calls)]

\* one task instance runs one component; the constructor arguments of the
\* component are drawn here, max_tries / max_retries defaulting to None
Init ==
    /\ task \in {"operator", "sensor"}
    /\ op_max_tries \in (IF task = "operator" THEN OptionalInts ELSE {NoneInt})
    /\ op_pc = "start"
    /\ op_response = None
    /\ job_id = None
    /\ op_result = None
    /\ start_calls = <<>>
    /\ sn_max_retries \in (IF task = "sensor" THEN OptionalInts ELSE {NoneInt})
    /\ sn_pc = "idle"
    /\ sn_result = None
    /\ pokes = 0
    /\ poll = [c \in Callers |-> IdleFrame]
    /\ describe_calls = <<>>
    /\ \E token \in (IF task = "operator" THEN {None, UserToken} ELSE {None}) :
          client_request_token = InitToken(token)
    /\ error_message = None
    /\ kill_pc = "idle"
    /\ kill_result = None
    /\ cancel_calls = <<>>

(* ------------------------- poll_query_status --------------------------- *)

\* query_state = self.check_query_status(job_id)
PollCheck(c) ==
    /\ poll[c].pc = "check"
    /\ Len(describe_calls) < MaxDescribes
    /\ \E resp \in DescribeOutcomes :
        LET r == CheckQueryStatus(resp) IN
        /\ describe_calls' = Append(describe_calls,
               [by |-> c, virtualClusterId |-> HookVirtualClusterId(c),
                id |-> poll[c].job_id, resp |-> resp])
        /\ poll' = [poll EXCEPT ![c] =
               IF r.raised # None
               THEN [poll[c] EXCEPT !.pc = "raised", !.raised = r.raised]
               ELSE [poll[c] EXCEPT !.pc = "eval", !.query_state = r.value]]
    /\ UNCHANGED <<task, kill_vars, error_message, op_vars, sn_vars>>

\* the if/elif/else on query_state, the max_tries test, try_number += 1
PollEvaluate(c) ==
    /\ poll[c].pc = "eval"
    /\ LET f == poll[c] IN
        poll' = [poll EXCEPT ![c] =
           IF IsFinalState(f.query_state)
              \/ MaxTriesReached(f.max_tries, f.try_number)
           THEN [f EXCEPT !.pc = "returned", !.final_query_state = f.query_state]
           ELSE [f EXCEPT !.pc = "sleep", !.try_number = f.try_number + 1]]
    /\ UNCHANGED <<task, kill_vars, error_message, op_vars, sn_vars, describe_calls>>

\* sleep(poll_interval), then the next iteration
PollSleep(c) ==
    /\ poll[c].pc = "sleep"
    /\ poll' = [poll EXCEPT ![c].pc = "check", ![c].sleeps = @ + 1]
    /\ UNCHANGED <<task, kill_vars, error_message, op_vars, sn_vars, describe_calls>>

(* ------------- poll_query_status past the bound of the log ------------- *)

\* The loop of poll_query_status has no bound when max_tries is None or 0.
\* For the behaviours that never end, the same loop is taken with the call
\* log left out and the two counters held at a ceiling above every max_tries
\* (try_number is compared with max_tries only, sleeps with nothing), so that
\* an endless poll is a cycle of finitely many states.
CounterCeiling == MaxTriesBound + 1

AtCeiling(n) == IF n > CounterCeiling THEN CounterCeiling ELSE n

\* query_state = self.check_query_status(job_id), answered by resp
PollCheckLive(c, resp) ==
    /\ poll[c].pc = "check"
    /\ LET r == CheckQueryStatus(resp) IN
        poll' = [poll EXCEPT ![c] =
               IF r.raised # None
               THEN [poll[c] EXCEPT !.pc = "raised", !.raised = r.raised]
               ELSE [poll[c] EXCEPT !.pc = "eval", !.query_state = r.value]]
    /\ UNCHANGED <<task, op_vars, sn_vars, describe_calls, kill_vars, error_message>>

\* the if/elif/else on query_state, the max_tries test, try_number += 1
PollEvaluateLive(c) ==
    /\ poll[c].pc = "eval"
    /\ LET f == poll[c] IN
        poll' = [poll EXCEPT ![c] =
           IF IsFinalState(f.query_state)
              \/ MaxTriesReached(f.max_tries, f.try_number)
           THEN [f EXCEPT !.pc = "returned", !.final_query_state = f.query_state]
           ELSE [f EXCEPT !.pc = "sleep",
                          !.try_number = AtCeiling(f.try_number + 1)]]
    /\ UNCHANGED <<task, op_vars, sn_vars, describe_calls, kill_vars, error_message>>

\* sleep(poll_interval), then the next iteration
PollSleepLive(c) ==
    /\ poll[c].pc = "sleep"
    /\ poll' = [poll EXCEPT ![c].pc = "check", ![c].sleeps = AtCeiling(@ + 1)]
    /\ UNCHANGED <<task, op_vars, sn_vars, describe_calls, kill_vars, error_message>>

(* ---------------------- EMRContainerOperator.execute ------------------- *)

\* self.hook.submit_job(...): one start_job_run call
ExecuteSubmit ==
    /\ task = "operator"
    /\ op_pc = "start"
    /\ \E response \in StartOutcomes :
        LET r == SubmitJob(response) IN
        /\ start_calls' = Append(start_calls,
               [status |-> response.status, id |-> response.id,
                virtualClusterId |-> response.virtualClusterId,
                clientToken |->
                    SubmitParams(ExecuteTokenArgument(client_request_token)).clientToken])
        /\ IF r.raised # None
           THEN /\ op_pc' = "raised"
                /\ op_result' = r.raised
                /\ op_response' = op_response
           ELSE /\ op_pc' = "submitted"
                /\ op_response' = r.value
                /\ op_result' = op_result
    /\ UNCHANGED <<task, kill_vars, error_message, op_max_tries, job_id, sn_vars, poll, describe_calls>>

\* self.job_id = <returned id>; poll_query_status(self.job_id, self.max_tries)
ExecuteStore ==
    /\ op_pc = "submitted"
    /\ job_id' = op_response
    /\ op_pc' = "polling"
    /\ poll' = [poll EXCEPT !["execute"] = EnterPoll(op_response, op_max_tries)]
    /\ UNCHANGED <<task, kill_vars, error_message, op_max_tries, op_response, op_result, start_calls, sn_vars,
                   describe_calls>>

\* the exception of check_query_status leaves poll_query_status and execute
ExecutePollRaised ==
    /\ op_pc = "polling"
    /\ poll["execute"].pc = "raised"
    /\ op_pc' = "raised"
    /\ op_result' = poll["execute"].raised
    /\ UNCHANGED <<task, kill_vars, error_message, op_max_tries, op_response, job_id, start_calls, sn_vars,
                   poll, describe_calls>>

\* the branches on query_status after the poll returned
ExecuteFinish ==
    /\ op_pc = "polling"
    /\ poll["execute"].pc = "returned"
    /\ LET outcome == ExecuteOutcome(poll["execute"].final_query_state) IN
        /\ op_pc' = IF outcome = Succeeded THEN "returned" ELSE "raised"
        /\ op_result' = IF outcome = Succeeded THEN job_id ELSE outcome
        /\ error_message' = IF outcome = Failed THEN ErrorMessage ELSE error_message
    /\ UNCHANGED <<task, kill_vars, op_max_tries, op_response, job_id, start_calls, sn_vars,
                   poll, describe_calls>>

(* ---------------------- EMRContainerOperator.on_kill ------------------- *)

\* the kill signal arrives during execute: on_kill tests `if self.job_id`
KillSignal ==
    /\ task = "operator"
    /\ kill_pc = "idle"
    /\ op_pc \in {"start", "submitted", "polling"}
    /\ kill_pc' = IF TruthyStr(job_id) THEN "cancel" ELSE "returned"
    /\ UNCHANGED <<task, op_vars, sn_vars, poll, describe_calls,
                   client_request_token, error_message, kill_result, cancel_calls>>

\* response = self.hook.stop_query(self.job_id), the status test, and the
\* entry of poll_query_status(self.job_id) when the status is 200
KillCancel ==
    /\ kill_pc = "cancel"
    /\ \E response \in CancelOutcomes :
        /\ cancel_calls' = Append(cancel_calls,
               [virtualClusterId |-> HookVirtualClusterId("on_kill"),
                id |-> job_id, response |-> response])
        /\ IF response.exc # None
           THEN /\ kill_pc' = "raised"
                /\ kill_result' = response.exc
                /\ poll' = poll
           ELSE IF CancelUnconfirmed(response)
           THEN /\ kill_pc' = "returned"
                /\ kill_result' = kill_result
                /\ poll' = poll
           ELSE /\ kill_pc' = "polling"
                /\ kill_result' = kill_result
                /\ poll' = [poll EXCEPT !["on_kill"] = EnterPoll(job_id, NoneInt)]
    /\ UNCHANGED <<task, op_vars, sn_vars, describe_calls, client_request_token,
                   error_message>>

\* the exception of check_query_status leaves poll_query_status and on_kill
KillPollRaised ==
    /\ kill_pc = "polling"
    /\ poll["on_kill"].pc = "raised"
    /\ kill_pc' = "raised"
    /\ kill_result' = poll["on_kill"].raised
    /\ UNCHANGED <<task, op_vars, sn_vars, poll, describe_calls,
                   client_request_token, error_message, cancel_calls>>

\* the follow-up poll returned: on_kill ends
KillFinish ==
    /\ kill_pc = "polling"
    /\ poll["on_kill"].pc = "returned"
    /\ kill_pc' = "returned"
    /\ UNCHANGED <<task, op_vars, sn_vars, poll, describe_calls,
                   client_request_token, error_message, kill_result, cancel_calls>>

(* ------------------------ EMRContainerSensor.poke ---------------------- *)

\* the scheduler invokes poke: poll_query_status(self.job_id, self.max_retries)
PokeStart ==
    /\ task = "sensor"
    /\ sn_pc = "idle" \/ (sn_pc = "returned" /\ sn_result = "False")
    /\ pokes < MaxPokes
    /\ pokes' = pokes + 1
    /\ sn_pc' = "polling"
    /\ sn_result' = None
    /\ poll' = [poll EXCEPT !["poke"] = EnterPoll(SensorJobId, sn_max_retries)]
    /\ UNCHANGED <<task, kill_vars, error_message, op_vars, sn_max_retries, describe_calls>>

\* the exception of check_query_status leaves poll_query_status and poke
PokePollRaised ==
    /\ sn_pc = "polling"
    /\ poll["poke"].pc = "raised"
    /\ sn_pc' = "raised"
    /\ sn_result' = poll["poke"].raised
    /\ UNCHANGED <<task, kill_vars, error_message, op_vars, sn_max_retries, pokes, poll, describe_calls>>

\* the tests on state after the poll returned
PokeFinish ==
    /\ sn_pc = "polling"
    /\ poll["poke"].pc = "returned"
    /\ LET outcome == PokeOutcome(poll["poke"].final_query_state) IN
        /\ sn_pc' = IF outcome = "raise" THEN "raised" ELSE "returned"
        /\ sn_result' = IF outcome = "raise" THEN "AirflowException" ELSE outcome
    /\ UNCHANGED <<task, kill_vars, error_message, op_vars, sn_max_retries, pokes, poll, describe_calls>>

(* --------------------- observations of one poll ------------------------ *)

\* the describe outcomes seen by the current poll_query_status call of c
Observed(c) ==
    LET tail == SubSeq(describe_calls, poll[c].first_call + 1, Len(describe_calls))
        IsMine(call) == call.by = c
    IN  SelectSeq(tail, IsMine)

NDescribes(c) == Len(Observed(c))

LastObserved(c) == Observed(c)[NDescribes(c)].resp

TerminalStates == SUCCESS_STATES \cup FAILURE_STATES

IsState(resp, S) == resp.exc = None /\ resp.state \in S

IsNotFound(resp) == resp.exc = "ResourceNotFoundException"

IsClientError(resp) == resp.exc = "ClientError"

IsMalformed(resp) == resp.exc = None /\ resp.state = Missing

AllObserved(c, S) ==
    \A i \in 1..NDescribes(c) : IsState(Observed(c)[i].resp, S)

(* ------------------------------- C1 ------------------------------------ *)

\* C1, in every state: a poll that evaluates or has returned a state of
\* {COMPLETED, FAILED, CANCELLED, CANCEL_PENDING} at attempt k has issued
\* exactly k describe calls and k - 1 sleeps, and the state is the one the
\* k-th describe answered.
C1_AtAttempt ==
    \A c \in Callers :
        LET f == poll[c] IN
        /\ (f.pc = "eval" /\ f.query_state \in TerminalStates) =>
              /\ NDescribes(c) = f.try_number
              /\ f.sleeps = f.try_number - 1
              /\ IsState(LastObserved(c), {f.query_state})
        /\ (f.pc = "returned" /\ f.final_query_state \in TerminalStates) =>
              /\ NDescribes(c) = f.try_number
              /\ f.sleeps = f.try_number - 1
              /\ IsState(LastObserved(c), {f.final_query_state})

\* C1, in every step: the attempt that observes such a state returns it with
\* the attempt counter unchanged, and after that return the poll issues no
\* describe call and no sleep.
C1_Step ==
    \A c \in Callers :
        LET f == poll[c] IN
        /\ (f.pc = "eval" /\ f.query_state \in TerminalStates) =>
              /\ poll'[c] = [f EXCEPT !.pc = "returned",
                                      !.final_query_state = f.query_state]
              /\ describe_calls' = describe_calls
        /\ (f.pc = "returned" /\ f.final_query_state \in TerminalStates) =>
              /\ poll'[c] = f
              /\ describe_calls' = describe_calls

\* C1: a terminal state observed on attempt k is returned on attempt k, after
\* exactly k describe calls, with nothing following the return.
C1_TerminalReturnsOnAttempt == []C1_AtAttempt /\ [][C1_Step]_vars

\* a failure state returned on the third attempt
C1_Witness ==
    \E c \in Callers :
        /\ poll[c].pc = "returned"
        /\ poll[c].final_query_state \in FAILURE_STATES
        /\ poll[c].try_number = 3
        /\ NDescribes(c) = 3

(* ------------------------------- C2 ------------------------------------ *)

\* C2: with max_tries = N, a poll all of whose describe calls answered an
\* intermediate state never issues more than N describe calls, stops at the
\* N-th, and when it has returned it has issued exactly N, returns the state
\* of the last one and raised nothing.
C2_ExhaustedBudgetReturnsLast ==
    \A c \in Callers :
        LET f == poll[c] IN
        (f.pc # "idle" /\ f.max_tries.set /\ AllObserved(c, INTERMEDIATE_STATES)) =>
            /\ f.pc # "raised"
            /\ f.max_tries.val >= 1 =>
                  /\ NDescribes(c) <= f.max_tries.val
                  /\ NDescribes(c) = f.max_tries.val => f.pc \in {"eval", "returned"}
            /\ f.pc = "returned" =>
                  /\ NDescribes(c) = f.max_tries.val
                  /\ IsState(LastObserved(c), {f.final_query_state})
                  /\ f.raised = None

\* max_tries = 3 and three intermediate observations, then the return
C2_Witness ==
    \E c \in Callers :
        /\ poll[c].pc = "returned"
        /\ poll[c].max_tries = SomeInt(3)
        /\ AllObserved(c, INTERMEDIATE_STATES)
        /\ NDescribes(c) = 3
        /\ poll[c].final_query_state \in INTERMEDIATE_STATES

(* ------------------------------- C3 ------------------------------------ *)

\* C3 as stated: poll_query_status never returns on an attempt that observed
\* an intermediate state.
C3_NeverReturnsIntermediate ==
    \A c \in Callers :
        poll[c].pc = "returned" => poll[c].final_query_state \notin INTERMEDIATE_STATES

\* the attempt budget is exhausted at this attempt
C3_BudgetExhausted(f) ==
    f.max_tries.set /\ f.max_tries.val # 0 /\ f.try_number >= f.max_tries.val

C3_Step ==
    \A c \in Callers :
        LET f == poll[c] IN
        /\ (f.pc = "eval" /\ f.query_state \in INTERMEDIATE_STATES) =>
              IF C3_BudgetExhausted(f)
              THEN poll'[c].pc = "returned"
              ELSE /\ poll'[c].pc = "sleep"
                   /\ poll'[c].try_number = f.try_number + 1
        /\ (f.pc = "sleep" /\ f.query_state \in INTERMEDIATE_STATES) =>
              /\ poll'[c].pc = "check"
              /\ poll'[c].sleeps = f.sleeps + 1
        /\ (f.pc = "check" /\ f.try_number > 1) =>
              /\ Len(describe_calls') = Len(describe_calls) + 1
              /\ describe_calls'[Len(describe_calls')].by = c

\* C3 amended: an attempt that observed an intermediate state returns only
\* when max_tries is set, nonzero and reached by that attempt; otherwise the
\* poll sleeps and issues another describe call.
C3_IntermediateContinuesWithinBudget ==
    /\ [](\A c \in Callers :
            (poll[c].pc = "returned"
               /\ poll[c].final_query_state \in INTERMEDIATE_STATES)
            => C3_BudgetExhausted(poll[c]))
    /\ [][C3_Step]_vars

\* an intermediate observation at attempt 1 with budget left, followed by a
\* second describe call
C3_Witness ==
    \E c \in Callers :
        /\ NDescribes(c) = 2
        /\ IsState(Observed(c)[1].resp, INTERMEDIATE_STATES)
        /\ poll[c].max_tries = SomeInt(3)
        /\ poll[c].try_number = 2

(* ------------------------------- C4 ------------------------------------ *)

\* C4: a describe call answered not-found is the last describe call of the
\* run; the poll that issued it has raised at that attempt without assigning
\* a state, and the execute or poke that called it raises and never returns.
C4_NotFoundFailsRun ==
    \A i \in 1..Len(describe_calls) :
        IsNotFound(describe_calls[i].resp) =>
            LET c == describe_calls[i].by
                f == poll[c]
            IN  /\ i = Len(describe_calls)
                /\ f.pc = "raised"
                /\ f.raised = "AirflowException"
                /\ f.try_number = NDescribes(c)
                /\ c = "execute" =>
                      /\ op_pc \in {"polling", "raised"}
                      /\ op_pc = "raised" => op_result = "AirflowException"
                /\ c = "poke" =>
                      /\ sn_pc \in {"polling", "raised"}
                      /\ sn_pc = "raised" => sn_result = "AirflowException"

\* execute failed on a not-found at attempt 2 of a budget of 3
C4_Witness ==
    /\ op_pc = "raised"
    /\ op_max_tries = SomeInt(3)
    /\ NDescribes("execute") = 2
    /\ IsNotFound(LastObserved("execute"))

(* ------------------------------- C5 ------------------------------------ *)

\* C5: while the latest describe call of a poll is one that failed with a
\* generic ClientError, the poll has raised nothing, the state it evaluates or
\* returns is None, the attempt counter equals the number of describe calls
\* (the failed one included), and a return of it means max_tries was reached
\* at exactly that count.
C5_ClientErrorIsUnknownAttempt ==
    \A c \in Callers :
        LET f == poll[c] IN
        (NDescribes(c) > 0 /\ IsClientError(LastObserved(c))) =>
            /\ f.pc \in {"eval", "sleep", "check", "returned"}
            /\ f.raised = None
            /\ f.query_state = None
            /\ f.pc = "eval" => f.try_number = NDescribes(c)
            /\ f.pc \in {"sleep", "check"} => f.try_number = NDescribes(c) + 1
            /\ f.pc = "returned" =>
                  /\ f.final_query_state = None
                  /\ f.max_tries.set
                  /\ f.max_tries.val = NDescribes(c)
                  /\ f.try_number = NDescribes(c)

\* max_tries = 2 used up by an intermediate state and a ClientError
C5_Witness ==
    \E c \in Callers :
        /\ poll[c].pc = "returned"
        /\ poll[c].max_tries = SomeInt(2)
        /\ NDescribes(c) = 2
        /\ IsClientError(LastObserved(c))
        /\ poll[c].final_query_state = None

(* ------------------------------- C6 ------------------------------------ *)

\* C6: a describe answer whose job-run record or state field is missing is
\* taken as the Unknown state: the poll raises nothing and the state it
\* evaluates is None.
C6_MalformedIsUnknown ==
    \A c \in Callers :
        (NDescribes(c) > 0 /\ IsMalformed(LastObserved(c))) =>
            /\ poll[c].pc # "raised"
            /\ poll[c].raised = None
            /\ poll[c].query_state = None

(* ------------------------------- C7 ------------------------------------ *)

\* C7: a finished poke has reported True only for a state of {COMPLETED},
\* False for every intermediate state and a failure for every failure state;
\* an Unknown (None) observation is never reported as True.
C7_PokeReportsByState ==
    (sn_pc \in {"returned", "raised"} /\ poll["poke"].pc = "returned") =>
        LET state == poll["poke"].final_query_state IN
        /\ sn_result = "True" => state \in SUCCESS_STATES
        /\ state \in INTERMEDIATE_STATES => (sn_pc = "returned" /\ sn_result = "False")
        /\ state \in FAILURE_STATES => sn_pc = "raised"
        /\ state = None => sn_result # "True"

(* ------------------------------- C8 ------------------------------------ *)

\* C8: an invocation of poke never sleeps and never issues a second describe
\* call, and when it has returned or raised it has issued exactly one.
C8_PokeSingleCheck ==
    /\ poll["poke"].sleeps = 0
    /\ NDescribes("poke") <= 1
    /\ sn_pc \in {"returned", "raised"} => NDescribes("poke") = 1

(* ------------------------------- C9 ------------------------------------ *)

\* C9: once execute has ended after its poll returned, COMPLETED gave the
\* job id back, a failure state gave the Failed outcome, and None or an
\* intermediate state (max_tries used up) gave the TimedOut outcome; and
\* whenever execute has returned a job id, the last describe call of its poll
\* answered COMPLETED.
C9_ExecuteOutcomeByState ==
    /\ (op_pc \in {"returned", "raised"} /\ poll["execute"].pc = "returned") =>
          LET f == poll["execute"]
              state == f.final_query_state
          IN  /\ state \in SUCCESS_STATES =>
                    (op_pc = "returned" /\ op_result = job_id /\ job_id = f.job_id)
              /\ state \in FAILURE_STATES =>
                    (op_pc = "raised" /\ op_result = Failed /\ op_result # TimedOut)
              /\ (state = None \/ state \in INTERMEDIATE_STATES) =>
                    /\ op_pc = "raised"
                    /\ op_result = TimedOut
                    /\ op_result # Failed
                    /\ f.max_tries.set
                    /\ f.try_number = f.max_tries.val
                    /\ NDescribes("execute") = f.max_tries.val
    /\ op_pc = "returned" =>
          /\ op_result \in {r.id : r \in StartOutcomes} \ {Missing}
          /\ NDescribes("execute") > 0
          /\ IsState(LastObserved("execute"), {"COMPLETED"})

\* max_tries = 2 used up on a ClientError after RUNNING: the TimedOut outcome
C9_Witness ==
    /\ op_pc = "raised"
    /\ op_result = TimedOut
    /\ op_max_tries = SomeInt(2)
    /\ NDescribes("execute") = 2
    /\ IsState(Observed("execute")[1].resp, {"RUNNING"})
    /\ poll["execute"].final_query_state = None

(* ------------------------------- C10 ----------------------------------- *)

\* the submit answer is no success acknowledgment, or omits the job id
C10_Rejected(response) == response.status # 200 \/ response.id = Missing

\* C10: start_job_run is called at most once, and when its answer has a
\* status other than 200 or omits the id, execute has raised, no describe
\* call was issued, the poll was never entered and the operator's job_id is
\* still None.
C10_SubmitFailureFailsRun ==
    /\ Len(start_calls) <= 1
    /\ \A i \in 1..Len(start_calls) :
          C10_Rejected(start_calls[i]) =>
              /\ op_pc = "raised"
              /\ op_result \in {"AirflowException", "KeyError"}
              /\ job_id = None
              /\ describe_calls = <<>>
              /\ poll["execute"].pc = "idle"

\* a submit answered with status 500 and an id
C10_Witness ==
    /\ Len(start_calls) = 1
    /\ start_calls[1].status = 500
    /\ start_calls[1].id # Missing
    /\ op_pc = "raised"

(* ------------------------------- C11 ----------------------------------- *)

\* C11: on_kill with a job id held has issued cancel-job for that id once it
\* is past the cancel call, its follow-up poll has no attempt budget and has
\* returned only a terminal state, and no exception has left on_kill.
C11_OnKillCancelsPollsNeverRaises ==
    /\ kill_pc # "raised"
    /\ (kill_pc \in {"polling", "returned", "raised"} /\ TruthyStr(job_id)) =>
          /\ Len(cancel_calls) = 1
          /\ cancel_calls[1].id = job_id
    /\ poll["on_kill"].pc # "idle" => poll["on_kill"].max_tries = NoneInt
    /\ (kill_pc = "returned" /\ poll["on_kill"].pc = "returned") =>
          poll["on_kill"].final_query_state \in TerminalStates

(* ------------------------------- C12 ----------------------------------- *)

\* C12: once on_kill has sent its cancel request and waits for the job, it
\* eventually hands control back (returns, or ends with an exception).
C12_OnKillRelinquishes ==
    (kill_pc = "polling") ~> (kill_pc \in {"returned", "raised"})

(* ------------------------------- C13 ----------------------------------- *)

\* C13: after a cancel acknowledgment without an HTTP status, or with a
\* status other than 200, on_kill has returned without an exception, its
\* poll was never entered and it issued no describe call; cancel-job is
\* requested at most once.
C13_UnconfirmedCancelEndsRun ==
    /\ Len(cancel_calls) <= 1
    /\ \A i \in 1..Len(cancel_calls) :
          LET r == cancel_calls[i].response IN
          (r.exc = None /\ (~r.hasStatus \/ r.status # 200)) =>
              /\ kill_pc = "returned"
              /\ kill_result = None
              /\ poll["on_kill"].pc = "idle"
              /\ \A j \in 1..Len(describe_calls) : describe_calls[j].by # "on_kill"

\* a cancel acknowledged without an HTTP status while execute was polling
C13_Witness ==
    /\ Len(cancel_calls) = 1
    /\ cancel_calls[1].response.exc = None
    /\ ~cancel_calls[1].response.hasStatus
    /\ kill_pc = "returned"
    /\ NDescribes("execute") = 2

(* ------------------------------- C14 ----------------------------------- *)

\* C14: every start_job_run request carries a clientToken, equal to the
\* client_request_token stored on the operator.
C14_SubmitCarriesToken ==
    \A i \in 1..Len(start_calls) :
        /\ start_calls[i].clientToken # Missing
        /\ start_calls[i].clientToken = client_request_token

(* ------------------------------- C15 ----------------------------------- *)

\* C15: when execute has raised the Failed outcome, its error text is the
\* failureReason of the job run the remote service reported, when it
\* reported one.
C15_FailedCarriesReason ==
    (op_pc = "raised" /\ op_result = Failed) =>
        LET resp == LastObserved("execute") IN
        resp.failureReason # Missing => error_message = resp.failureReason

(* ------------------------------- C16 ----------------------------------- *)

\* C16: every describe_job_run call carries the virtualClusterId the
\* component was configured with and the job id of the run it observes.
C16_DescribeAddressed ==
    \A i \in 1..Len(describe_calls) :
        /\ describe_calls[i].virtualClusterId = VirtualClusterId
        /\ describe_calls[i].id =
              (IF describe_calls[i].by = "poke" THEN SensorJobId ELSE job_id)

(* ------------------------------- C17 ----------------------------------- *)

\* the value check_query_status hands to the loop for a describe answer
C17_StateOf(resp) == IF resp.exc = "ClientError" THEN None ELSE resp.state

\* C17: a poll starts with the attempt counter at 1; where it evaluates an
\* observation, has returned or has raised, the describe calls it issued are
\* as many as the attempt counter, and one fewer while it sleeps or is about
\* to ask again; the state evaluated and the state returned are the answer
\* of its latest describe call.
C17_OneDescribePerAttempt ==
    \A c \in Callers :
        LET f == poll[c] IN
        f.pc # "idle" =>
            /\ f.try_number >= 1
            /\ NDescribes(c) = 0 => (f.pc = "check" /\ f.try_number = 1)
            /\ f.pc \in {"eval", "returned", "raised"} => NDescribes(c) = f.try_number
            /\ f.pc \in {"sleep", "check"} => NDescribes(c) = f.try_number - 1
            /\ f.pc = "eval" => f.query_state = C17_StateOf(LastObserved(c))
            /\ f.pc = "returned" =>
                  f.final_query_state = C17_StateOf(LastObserved(c))

\* RUNNING, then FAILED, returned at attempt 2: the state of the latest call
C17_Witness ==
    \E c \in Callers :
        /\ poll[c].pc = "returned"
        /\ poll[c].try_number = 2
        /\ NDescribes(c) = 2
        /\ IsState(Observed(c)[1].resp, {"RUNNING"})
        /\ poll[c].final_query_state = "FAILED"

(* ------------------------------- C18 ----------------------------------- *)

\* the start_job_run call was answered with status 200 and a job id
C18_Accepted(call) == call.status = 200 /\ call.id # Missing

\* C18: when on_kill has run (it is past its cancel step) and the remote
\* service had accepted a job of this run, cancel-job was issued for that
\* job id.
C18_AcceptedJobIsCancelled ==
    \A i \in 1..Len(start_calls) :
        (C18_Accepted(start_calls[i]) /\ kill_pc \in {"polling", "returned", "raised"}) =>
            \E j \in 1..Len(cancel_calls) : cancel_calls[j].id = start_calls[i].id

(* ------------------------------- C19 ----------------------------------- *)

\* C19: a poll that has returned or raised has issued at least one describe
\* call; with max_tries = N >= 1 it never issues more than N and after the
\* N-th it only evaluates, returns or raises; with max_tries = 0, as with
\* None, it returns only a state that is neither intermediate nor None, on
\* the attempt that observed it.
C19_AttemptBudget ==
    \A c \in Callers :
        LET f == poll[c] IN
        /\ f.pc \in {"returned", "raised"} => NDescribes(c) >= 1
        /\ (f.pc # "idle" /\ f.max_tries.set /\ f.max_tries.val >= 1) =>
              /\ NDescribes(c) <= f.max_tries.val
              /\ NDescribes(c) = f.max_tries.val =>
                    f.pc \in {"eval", "returned", "raised"}
        /\ (f.pc # "idle" /\ f.max_tries \in {NoneInt, SomeInt(0)}) =>
              /\ f.pc = "returned" =>
                    /\ f.final_query_state \in TerminalStates
                    /\ IsState(LastObserved(c), {f.final_query_state})
              /\ (f.pc = "eval" /\ f.query_state \notin TerminalStates) =>
                    NDescribes(c) = f.try_number

\* the step of a poll with max_tries = 0 or None that evaluated a state
\* which is intermediate or None: it goes on to sleep
C19_Step ==
    \A c \in Callers :
        LET f == poll[c] IN
        (f.pc = "eval" /\ f.max_tries \in {NoneInt, SomeInt(0)}
            /\ f.query_state \notin TerminalStates) =>
            /\ poll'[c].pc = "sleep"
            /\ poll'[c].try_number = f.try_number + 1

\* C19: the attempt budget of poll_query_status, max_tries = 0 being no
\* budget.
C19_AttemptBudgetBound == []C19_AttemptBudget /\ [][C19_Step]_vars

\* max_tries = 0: three intermediate or None observations and a fourth call
C19_Witness ==
    \E c \in Callers :
        /\ poll[c].max_tries = SomeInt(0)
        /\ NDescribes(c) = 4
        /\ poll[c].pc = "returned"

(* ------------------------------- C20 ----------------------------------- *)

\* C20, the "only if" half, in every state: a poll with max_tries unset that
\* has ended has returned the terminal state its latest describe call
\* observed, or was ended by the not-found answer of that call.
C20_UnsetEndsOnlyOnTerminal ==
    \A c \in Callers :
        (poll[c].pc \in {"returned", "raised"} /\ poll[c].max_tries = NoneInt) =>
            \/ /\ poll[c].pc = "returned"
               /\ poll[c].final_query_state \in TerminalStates
               /\ IsState(LastObserved(c), {poll[c].final_query_state})
            \/ /\ poll[c].pc = "raised"
               /\ IsNotFound(LastObserved(c))

\* C20, the "if" half, under SpecLiveRemote: a poll with max_tries unset that
\* is about to ask (and is not cut off by the kill signal) ends.
C20_UnsetEndsWhenTerminal ==
    \A c \in Callers :
        (poll[c].pc = "check" /\ poll[c].max_tries = NoneInt
            /\ (kill_pc = "idle" \/ c = "on_kill"))
        ~> (poll[c].pc \in {"returned", "raised"} \/ (kill_pc # "idle" /\ c # "on_kill"))

(* --------------------------- specification ----------------------------- *)

Next ==
    \/ ExecuteSubmit
    \/ ExecuteStore
    \/ ExecutePollRaised
    \/ ExecuteFinish
    \/ PokeStart
    \/ PokePollRaised
    \/ PokeFinish
    \/ \E c \in Callers : PollCheck(c)
    \/ \E c \in Callers : PollEvaluate(c)
    \/ \E c \in Callers : PollSleep(c)

Spec == Init /\ [][Next]_vars

\* the task instance with the kill signal of the orchestrator: the signal
\* handler runs on_kill on the thread of execute (one thread of control per
\* job run), so execute takes no step once the signal has arrived
NextKill ==
    \/ kill_pc = "idle" /\ Next
    \/ PollCheck("on_kill")
    \/ PollEvaluate("on_kill")
    \/ PollSleep("on_kill")
    \/ KillSignal
    \/ KillCancel
    \/ KillPollRaised
    \/ KillFinish

SpecKill == Init /\ [][NextKill]_vars

\* the steps of execute and poke, the loop taken without the call log
StepLive ==
    \/ ExecuteSubmit
    \/ ExecuteStore
    \/ ExecutePollRaised
    \/ ExecuteFinish
    \/ PokePollRaised
    \/ PokeFinish
    \/ \E c \in {"execute", "poke"} : \E resp \in DescribeOutcomes : PollCheckLive(c, resp)
    \/ \E c \in {"execute", "poke"} : PollEvaluateLive(c)
    \/ \E c \in {"execute", "poke"} : PollSleepLive(c)

\* the steps of on_kill
KillStepLive ==
    \/ KillCancel
    \/ KillPollRaised
    \/ KillFinish
    \/ \E resp \in DescribeOutcomes : PollCheckLive("on_kill", resp)
    \/ PollEvaluateLive("on_kill")
    \/ PollSleepLive("on_kill")

\* the steps of the running code: execute or poke until the kill signal,
\* on_kill after it
ProgramStep ==
    \/ kill_pc = "idle" /\ StepLive
    \/ KillStepLive

NextLive ==
    \/ ProgramStep
    \/ kill_pc = "idle" /\ PokeStart
    \/ KillSignal

\* the interpreter keeps running the code: a step of the program that stays
\* possible is eventually taken; the scheduler's pokes and the kill signal
\* may or may not come
SpecLive == Init /\ [][NextLive]_vars /\ WF_vars(ProgramStep)

\* a describe call answered with a state of the success or failure set
TerminalAnswer ==
    \E c \in Callers :
        \E resp \in {r \in DescribeOutcomes : r.exc = None /\ r.state \in TerminalStates} :
            /\ kill_pc = "idle" \/ c = "on_kill"
            /\ PollCheckLive(c, resp)

\* SpecLive with a remote job that reaches a terminal state and stays there
\* and status queries that succeed in the end: a poll that keeps asking is
\* answered with a terminal state
SpecLiveRemote == SpecLive /\ SF_vars(TerminalAnswer)

====
